---- MODULE Spec2Model ----
(***************************************************************************)
(* State-machine model of src/server/heliusStream.js: the closure created  *)
(* by createWalletMintStream (socket handle, timers, backoff, pair, dedup  *)
(* cache, in-flight counter, persisted cursor files), the asynchronous     *)
(* start()/backfillOnce() calls, the reconnect probes and the live detail  *)
(* fetches, each advanced one await at a time.                             *)
(***************************************************************************)
EXTENDS Integers, Sequences, FiniteSets, TLC

\* ------------------------------------------------------------------ bounds
MaxCalls == 3      \* start()/setPair() invocations made by the caller
MaxSock == 3       \* WebSocket objects that exist at the same time
MaxNotif == 4      \* logsNotification messages that start a detail fetch
MaxTrack == 6      \* where the count of consecutive reconnect delays saturates

\* ------------------------------------------------------- program constants
BaseBackoffMs == 1000
MaxBackoffMs == 5000
MaxDetailConcurrency == 2
BackfillLimit == 15
SeenCap == 5000
KeyLen == 6
MinIdLen == 32
MaxIdLen == 44

\* ------------------------------------------------------------- identifiers
\* An identifier is the sequence of its characters; the empty sequence stands
\* for a missing (undefined, null or "") field, which JavaScript treats as falsy.
Fill(c, n) == [i \in 1..n |-> c]
Null == <<>>
Base58Chars ==
  {"1","2","3","4","5","6","7","8","9",
   "A","B","C","D","E","F","G","H","J","K","L","M","N","P","Q","R","S","T","U",
   "V","W","X","Y","Z",
   "a","b","c","d","e","f","g","h","i","j","k","m","n","o","p","q","r","s","t",
   "u","v","w","x","y","z"}

WalletA == <<"W","a","1","1","e","t">> \o Fill("A", 26)
MintA == <<"M","i","n","t","o","f">> \o Fill("a", 38)
WalletB == <<"W","a","1","1","e","t">> \o Fill("B", 26)
MintB == <<"M","i","n","t","o","f">> \o Fill("b", 38)
WalletC == <<"C","w","a","1","1","e","t">> \o Fill("C", 30)
MintC == <<"C","m","i","n","t">> \o Fill("c", 27)
TooShort == Fill("A", 31)
TooLong == Fill("A", 45)
BadZero == Fill("A", 31) \o <<"0">>
BadEll == <<"l">> \o Fill("A", 39)

\* The pairs a caller may pass.  1..3 are well formed (1 and 2 agree on the
\* first six characters of wallet and of mint); the others are malformed.
PairTab ==
  << [wallet |-> WalletA, mint |-> MintA],
     [wallet |-> WalletB, mint |-> MintB],
     [wallet |-> WalletC, mint |-> MintC],
     [wallet |-> Null, mint |-> MintA],
     [wallet |-> WalletA, mint |-> Null],
     [wallet |-> TooShort, mint |-> MintA],
     [wallet |-> WalletA, mint |-> TooLong],
     [wallet |-> BadZero, mint |-> MintA],
     [wallet |-> WalletA, mint |-> BadEll] >>
PairIds == 1..Len(PairTab)
\* Pair id 0 is the initial { wallet: null, mint: null }.
Wallet(p) == IF p = 0 THEN Null ELSE PairTab[p].wallet
Mint(p) == IF p = 0 THEN Null ELSE PairTab[p].mint

\* (variant: the lower length bound is lost)
base58_noMinimum(s) ==
  /\ Len(s) <= MaxIdLen
  /\ \A i \in 1..Len(s) : s[i] \in Base58Chars

\* /^[1-9A-HJ-NP-Za-km-z]{32,44}$/.test(s)
base58(s) ==
  /\ Len(s) >= MinIdLen
  /\ Len(s) <= MaxIdLen
  /\ \A i \in 1..Len(s) : s[i] \in Base58Chars

\* The checks start() makes before any await: TRUE when it throws.
startThrows(p) ==
  \/ Wallet(p) = Null
  \/ Mint(p) = Null
  \/ ~base58(Wallet(p))
  \/ ~base58(Mint(p))

\* ----------------------------------------------------------- persistence
Slice(s, n) == SubSeq(s, 1, IF Len(s) < n THEN Len(s) ELSE n)
stateKey(w, m) ==
  << IF w = Null THEN <<"n","o","n","e">> ELSE Slice(w, KeyLen),
     IF m = Null THEN <<"n","o","n","e">> ELSE Slice(m, KeyLen) >>
\* A state file is named by its key; the model writes the file of pair p as the
\* least pair id whose key is the same (pairs with equal keys share one file).
stateFile(p) ==
  CHOOSE q \in 0..Len(PairTab) :
    /\ stateKey(Wallet(q), Mint(q)) = stateKey(Wallet(p), Mint(p))
    /\ \A r \in 0..(q - 1) : stateKey(Wallet(r), Mint(r)) # stateKey(Wallet(p), Mint(p))
NoState == [lastSlot |-> 0, lastSig |-> 0]
FileKeys == {stateFile(p) : p \in 0..Len(PairTab)}

\* ------------------------------------------------------------- the ledger
\* A transaction as getTransaction returns it: its slot, the mints and owners
\* of its pre/post token balance records, and its account keys.
TxTab ==
  << [slot |-> 10, mints |-> {MintA}, owners |-> {WalletA}, keys |-> {}],
     [slot |-> 20, mints |-> {MintA}, owners |-> {}, keys |-> {WalletA}],
     [slot |-> 15, mints |-> {MintB}, owners |-> {}, keys |-> {WalletA, WalletC}],
     [slot |-> 30, mints |-> {MintC}, owners |-> {WalletC}, keys |-> {}] >>
Sigs == 1..Len(TxTab)
Mentions(sig, w) == w \in TxTab[sig].owners \cup TxTab[sig].keys

Min(a, b) == IF a < b THEN a ELSE b
Max(a, b) == IF a > b THEN a ELSE b

\* ------------------------------------------------------------------ state
VARIABLES
  ws,               \* the closure's socket handle: a socket id, 0 for null
  sock,             \* the WebSocket objects: readyState, listeners, pending events
  timers,           \* timers.ping / liveness / idle / probe
  backoffMs,
  pair,             \* id of the current pair (0: both fields null)
  inflightDetails,
  seen,             \* the dedup Set, in insertion order
  shouldRun,
  files,            \* persistDir: state file name -> stored record
  cfgSaveEvent,     \* whether cfg.saveEvent is configured
  chain,            \* the signatures of TxTab the ledger holds
  orphanProbes,     \* armed reconnect timeouts that timers.probe no longer holds
  probeRpcs,        \* reconnect probes (getLatestBlockhash) in flight
  calls,            \* the start()/setPair() invocations in progress and where each awaits
  lastCall,         \* the invocation that settled last, and how (history only)
  nCalls,           \* how many invocations the caller has made
  lives,            \* the live-path detail tasks and where each one awaits
  emits,            \* how often onEvent was invoked, per signature and origin
  evicted,          \* the signatures the dedup Set has dropped (history only)
  hist              \* what the log and the network saw (history only)

vars == << ws, sock, timers, backoffMs, pair, inflightDetails, seen, shouldRun,
           files, cfgSaveEvent, chain, orphanProbes, probeRpcs, calls, lastCall, nCalls, lives,
           emits, evicted, hist >>
ctlVars == << ws, sock, timers, backoffMs, pair, shouldRun, orphanProbes, hist >>
dataVars == << inflightDetails, seen, evicted, files, lives, emits >>
envVars == << cfgSaveEvent, chain >>
callVars == << calls, lastCall, nCalls >>

SockIds == 1..MaxSock
NoSock == [st |-> "none", lis |-> FALSE, err |-> FALSE, sub |-> 0, acked |-> FALSE]
NoTimers == [ping |-> "null", liveness |-> "null", idle |-> "null", probe |-> "null"]
NoCall == [pc |-> "new", p |-> 0, kind |-> "start", todo |-> <<>>, cur |-> 0,
           since |-> 0, probes |-> 0, probeRes |-> "none", fromSub |-> FALSE,
           lookups |-> 0, aborted |-> FALSE]
\* slot: the slot the notification carried (Undefined when its context had none);
\* evPair: the pair the event was built with; stale: setPair() was called while the
\* task was under way.
Undefined == -1
NoLive == [pc |-> "free", sig |-> 0, slot |-> 0, late |-> FALSE, evPair |-> 0,
           stale |-> FALSE]
NoEmit == [bf |-> 0, live |-> 0]
\* sched, delay: how many reconnects were scheduled since backoffMs was last set to
\* its base, and the delay of the last one; created, subs: whether a socket was ever
\* created, a logsSubscribe ever sent; preflight: whether a preflight of start() ever
\* succeeded; ponged: a pong arrived since the last ping; why: the timer that
\* terminated the current socket; halted: the caller's last call was stop(); shed:
\* the signature of the last notification dropped at the concurrency gate; missed:
\* a message or a pong has arrived since the idle timer now armed was set.
NoHist == [dup |-> 0, sched |-> 0, delay |-> 0, created |-> 0, subs |-> 0, preflight |-> 0,
           ponged |-> FALSE, why |-> "none", halted |-> FALSE, shed |-> 0,
           missed |-> FALSE]

\* The control part of the closure, as one value the handlers transform.
Ctl ==
  [ws |-> ws, sock |-> sock, timers |-> timers, backoffMs |-> backoffMs,
   pair |-> pair, shouldRun |-> shouldRun, orphanProbes |-> orphanProbes,
   hist |-> hist]

\* A socket object nothing refers to any more and that has no handler left to run
\* is forgotten, so that its slot can stand for a later socket.
Gc(c) ==
  [c EXCEPT !.sock =
     [s \in SockIds |->
        IF /\ s # c.ws
           /\ \/ c.sock[s].st = "closed"
              \/ (c.sock[s].st = "closing" /\ ~c.sock[s].lis)
        THEN NoSock ELSE c.sock[s]]]

Commit(c) ==
  LET g == Gc(c) IN
  /\ ws' = g.ws
  /\ sock' = g.sock
  /\ timers' = g.timers
  /\ backoffMs' = g.backoffMs
  /\ pair' = g.pair
  /\ shouldRun' = g.shouldRun
  /\ orphanProbes' = g.orphanProbes
  /\ hist' = g.hist

\* ------------------------------------------------------------------ utils
\* The dedup Set, in insertion order.  An entry stands for one signature of TxTab
\* (sig, n = 1) or for a run of n consecutive signatures outside TxTab (sig = 0).
One(sig) == [sig |-> sig, n |-> 1]
Run(n) == [sig |-> 0, n |-> n]
Held(s) == {s[i].sig : i \in 1..Len(s)} \ {0}
RECURSIVE Size(_)
Size(s) == IF s = <<>> THEN 0 ELSE Head(s).n + Size(Tail(s))

\* seen.delete(seen.values().next().value): the oldest signature goes
DropOldest(s) == IF Head(s).n > 1 THEN [s EXCEPT ![1].n = @ - 1] ELSE Tail(s)

\* (variant: nothing is ever deleted from the Set)
remember_noEvict(s, sig) == IF sig \in Held(s) THEN s ELSE Append(s, One(sig))

remember(s, sig) ==
  LET added == IF sig \in Held(s) THEN s ELSE Append(s, One(sig))
  IN IF Size(added) > SeenCap THEN DropOldest(added) ELSE added

\* History: what a change of the dedup Set from s to t has dropped
Dropped(s, t) == Held(s) \ Held(t)

clearAllTimers(c) == [c EXCEPT !.timers = NoTimers, !.hist.missed = FALSE]

\* Math.round(b * 1.5) for an integer b
RoundTimes15(b) == (3 * b + 1) \div 2

\* (variant: the cap is lost)
scheduleReconnect_uncapped(c) ==
  IF ~c.shouldRun THEN c
  ELSE LET d == RoundTimes15(c.backoffMs) IN
       [c EXCEPT !.backoffMs = d,
                 !.orphanProbes = IF c.timers.probe = "armed" THEN @ + 1 ELSE @,
                 !.timers.probe = "armed",
                 !.hist.sched = Min(MaxTrack, @ + 1),
                 !.hist.delay = d]

scheduleReconnect(c) ==
  IF ~c.shouldRun THEN c
  ELSE LET d == Min(MaxBackoffMs, RoundTimes15(c.backoffMs)) IN
       [c EXCEPT !.backoffMs = d,
                 !.orphanProbes = IF c.timers.probe = "armed" THEN @ + 1 ELSE @,
                 !.timers.probe = "armed",
                 !.hist.sched = Min(MaxTrack, @ + 1),
                 !.hist.delay = d]

\* ws.terminate() on socket s; on a null handle the TypeError is caught.
terminate(c, s) ==
  IF s = 0 THEN c
  ELSE IF c.sock[s].st = "connecting"
       THEN [c EXCEPT !.sock[s].st = "closing", !.sock[s].err = TRUE]
  ELSE IF c.sock[s].st = "open"
       THEN [c EXCEPT !.sock[s].st = "closing"]
  ELSE c

armIdleRecycle(c) == [c EXCEPT !.timers.idle = "armed", !.hist.missed = FALSE]

\* History: something arrived on the socket and the idle timer was left as it was
Missed(c) == IF c.timers.idle = "armed" THEN [c EXCEPT !.hist.missed = TRUE] ELSE c

\* setInterval for the ping; a liveness timeout still held is cleared, its handle kept
startHeartbeat(c) ==
  [c EXCEPT !.timers.ping = "armed",
            !.timers.liveness = IF @ = "null" THEN "null" ELSE "dead"]

FreeSlots(c) == {s \in SockIds : c.sock[s].st = "none"}

\* connect() returns early without shouldRun or without both pair fields
connectReturns(c) ==
  \/ ~c.shouldRun
  \/ Wallet(c.pair) = Null
  \/ Mint(c.pair) = Null

\* connect(): the old socket loses its listeners (it is not terminated), all timers
\* are cleared and a new socket starts connecting.
connectNew(c) ==
  LET unheard == IF c.ws = 0 THEN c
                 ELSE [c EXCEPT !.sock[c.ws].lis = FALSE]
      cleared == clearAllTimers(unheard)
      dropped == Gc([cleared EXCEPT !.ws = 0])
      n == CHOOSE s \in FreeSlots(dropped) : \A t \in FreeSlots(dropped) : s <= t
  IN [dropped EXCEPT !.sock[n] = [NoSock EXCEPT !.st = "connecting", !.lis = TRUE],
                     !.ws = n,
                     !.hist.created = 1,
                     !.hist.why = "none"]

connect(c) == IF connectReturns(c) THEN c ELSE connectNew(c)

\* The model can follow connect() only while a socket slot is left.
CanConnect(c) ==
  \/ connectReturns(c)
  \/ FreeSlots(Gc([c EXCEPT !.ws = 0, !.sock =
        [s \in SockIds |-> IF s = c.ws THEN [c.sock[s] EXCEPT !.lis = FALSE]
                           ELSE c.sock[s]]])) # {}

\* (variant: stop() does not clear the timers)
stop_keepsTimers(c) ==
  LET halted == [c EXCEPT !.shouldRun = FALSE]
      killed == terminate(halted, halted.ws)
  IN [killed EXCEPT !.ws = 0, !.hist.why = "none"]

stop(c) ==
  LET halted == [c EXCEPT !.shouldRun = FALSE]
      cleared == clearAllTimers(halted)
      killed == terminate(cleared, cleared.ws)
  IN [killed EXCEPT !.ws = 0, !.hist.why = "none"]

isConnected == ws # 0 /\ sock[ws].st = "open"

\* -------------------------------------------------------- socket handlers
\* ws.on("open"): the handler works on the closure's ws
openHandler(c) ==
  LET reset == [c EXCEPT !.backoffMs = BaseBackoffMs, !.hist.sched = 0]
      beat == startHeartbeat(reset)
      sent == [beat EXCEPT !.sock[c.ws].sub = c.pair,
                           !.hist.subs = 1]
  IN armIdleRecycle(sent)

\* The handshake of socket s completes.
SockOpen(s) ==
  /\ sock[s].st = "connecting"
  /\ LET opened == [Ctl EXCEPT !.sock[s].st = "open"]
     IN Commit(IF sock[s].lis THEN openHandler(opened) ELSE opened)
  /\ UNCHANGED << dataVars, envVars, probeRpcs, callVars >>

\* ws.on("message") with { id: 1, result }: the subscription acknowledgment
ackHandler(c) == armIdleRecycle(c)

SockAck(s) ==
  /\ sock[s].st = "open"
  /\ sock[s].lis
  /\ sock[s].sub # 0
  /\ ~sock[s].acked
  /\ Commit(ackHandler([Ctl EXCEPT !.sock[s].acked = TRUE]))
  /\ UNCHANGED << dataVars, envVars, probeRpcs, callVars >>

\* (variant: the pong does not clear the liveness timeout)
pongHandler_noClear(c) == c

\* ws.on("pong"): clearTimeout(timers.liveness), the handle is kept
pongHandler(c) ==
  [c EXCEPT !.timers.liveness = IF @ = "null" THEN "null" ELSE "dead"]
Ponged(c) == Missed([c EXCEPT !.hist.ponged = TRUE])

SockPong(s) ==
  /\ sock[s].st = "open"
  /\ sock[s].lis
  /\ ~hist.ponged
  /\ Commit(Ponged(pongHandler(Ctl)))
  /\ UNCHANGED << dataVars, envVars, probeRpcs, callVars >>

\* History: the timer that fired while the current socket was open
Because(c, timer) ==
  IF ws # 0 /\ sock[ws].st = "open" THEN [c EXCEPT !.hist.why = timer] ELSE c

\* The setInterval callback of startHeartbeat
pingTick(c) ==
  IF c.ws = 0 \/ c.sock[c.ws].st # "open" THEN c
  ELSE [c EXCEPT !.timers.liveness = "armed", !.hist.ponged = FALSE]

PingTick ==
  /\ timers.ping = "armed"
  /\ pingTick(Ctl) # Ctl
  /\ Commit(pingTick(Ctl))
  /\ UNCHANGED << dataVars, envVars, probeRpcs, callVars >>

\* The liveness timeout set by the ping callback fires: ws.terminate()
livenessFire(c) == terminate([c EXCEPT !.timers.liveness = "dead"], c.ws)

LivenessFire ==
  /\ timers.liveness = "armed"
  /\ Commit(Because(livenessFire(Ctl), "liveness"))
  /\ UNCHANGED << dataVars, envVars, probeRpcs, callVars >>

\* (variant: the callback only logs)
idleFire_noTerminate(c) == [c EXCEPT !.timers.idle = "dead", !.hist.missed = FALSE]

\* The timeout of armIdleRecycle fires
idleFire(c) ==
  LET fired == [c EXCEPT !.timers.idle = "dead", !.hist.missed = FALSE] IN
  IF c.ws = 0 \/ c.sock[c.ws].st # "open" THEN fired
  ELSE terminate(fired, c.ws)

IdleFire ==
  /\ timers.idle = "armed"
  /\ Commit(Because(idleFire(Ctl), "idle"))
  /\ UNCHANGED << dataVars, envVars, probeRpcs, callVars >>

\* The network or the server ends socket s; its events are delivered later.
SockDrop(s, withError) ==
  /\ sock[s].st \in {"connecting", "open"}
  /\ sock[s].st = "connecting" => withError
  /\ Commit([Ctl EXCEPT !.sock[s].st = "closing", !.sock[s].err = withError])
  /\ UNCHANGED << dataVars, envVars, probeRpcs, callVars >>

\* ws.on("unexpected-response"): ws.terminate() on the closure's ws
SockUnexpected(s) ==
  /\ sock[s].st = "connecting"
  /\ sock[s].lis
  /\ Commit(terminate(Ctl, ws))
  /\ UNCHANGED << dataVars, envVars, probeRpcs, callVars >>

\* ws.on("error"): ws.terminate() on the closure's ws
errorHandler(c) == terminate(c, c.ws)

\* (variant: the close of a socket schedules nothing)
closeHandler_silent(c) == c

\* ws.on("close")
closeHandler(c) == scheduleReconnect(c)

\* Socket s, closing, emits "error" (when its handshake was aborted or it failed)
\* and then "close".
SockClose(s) ==
  /\ sock[s].st = "closing"
  /\ LET heard == sock[s].lis
         c1 == IF heard /\ sock[s].err THEN errorHandler(Ctl) ELSE Ctl
         c2 == [c1 EXCEPT !.sock[s].st = "closed", !.sock[s].err = FALSE]
     IN Commit(IF heard THEN closeHandler(c2) ELSE c2)
  /\ UNCHANGED << dataVars, envVars, probeRpcs, callVars >>

\* -------------------------------------------------------- reconnect probe
\* The timeout set by scheduleReconnect fires: rpc("getLatestBlockhash") is sent.
ProbeTimerFire ==
  /\ timers.probe = "armed"
  /\ timers' = [timers EXCEPT !.probe = "dead"]
  /\ probeRpcs' = probeRpcs + 1
  /\ UNCHANGED << ws, sock, backoffMs, pair, shouldRun, orphanProbes, hist,
                  dataVars, envVars, callVars >>

OrphanTimerFire ==
  /\ orphanProbes > 0
  /\ orphanProbes' = orphanProbes - 1
  /\ probeRpcs' = probeRpcs + 1
  /\ UNCHANGED << ws, sock, timers, backoffMs, pair, shouldRun, hist,
                  dataVars, envVars, callVars >>

\* (variant: the reconnect probe, once answered, also runs the backfill again)
ProbeRpcDone_backfills(ok) ==
  /\ probeRpcs > 0
  /\ ok => CanConnect(Ctl)
  /\ probeRpcs' = probeRpcs - 1
  /\ Commit(IF ok THEN connect(Ctl) ELSE scheduleReconnect(Ctl))
  /\ IF ok /\ \E i \in DOMAIN calls : calls[i].pc = "new"
     THEN LET i == CHOOSE j \in DOMAIN calls : calls[j].pc = "new" IN
          calls' = [calls EXCEPT ![i] = [NoCall EXCEPT !.pc = "sigs", !.p = pair,
                                                       !.lookups = 1]]
     ELSE UNCHANGED calls
  /\ UNCHANGED << dataVars, envVars, lastCall, nCalls >>

\* (variant: the catch of the reconnect probe only logs)
probeSettled_noReschedule(c, ok) == IF ok THEN connect(c) ELSE c

\* The reconnect probe settles: connect() on success, scheduleReconnect otherwise.
probeSettled(c, ok) == IF ok THEN connect(c) ELSE scheduleReconnect(c)

ProbeRpcDone(ok) ==
  /\ probeRpcs > 0
  /\ ok => CanConnect(Ctl)
  /\ probeRpcs' = probeRpcs - 1
  /\ Commit(probeSettled(Ctl, ok))
  /\ UNCHANGED << dataVars, envVars, callVars >>

\* ------------------------------------------------------------ stop()
Stop ==
  /\ Commit([stop(Ctl) EXCEPT !.hist.halted = TRUE])
  /\ UNCHANGED << dataVars, envVars, probeRpcs, callVars >>

\* ------------------------------------------------------ start(), setPair()
CallIds == 1..MaxCalls
ProbeOutcomes == {"ok", "transport", "http", "rpcerr"}

\* (variants: the js.error check is lost; the catch swallows every failure)
probeThrows_noRpcError(outcome) == outcome \in {"transport", "http"}
probeThrows_never(outcome) == FALSE

\* The preflight of start() throws on a transport error, on !probe.ok and on js.error
probeThrows(outcome) == outcome \in {"transport", "http", "rpcerr"}

Rejected(call) == [call EXCEPT !.pc = "rejected", !.todo = <<>>, !.cur = 0]
Done(call) == [call EXCEPT !.pc = "done", !.todo = <<>>, !.cur = 0]

\* Call i settles (its promise resolves or rejects): the model keeps the last one.
Settle(i, how) ==
  /\ calls' = [calls EXCEPT ![i] = NoCall]
  /\ lastCall' = how

\* History: the detail tasks under way when setPair() is called
Staled(ls) ==
  [t \in DOMAIN ls |->
     IF ls[t].pc \in {"fetch", "save"} THEN [ls[t] EXCEPT !.stale = TRUE] ELSE ls[t]]

\* The caller invokes start(PairTab[p]) or setPair(PairTab[p]) (stop(), then start):
\* the call runs up to its first await, the preflight fetch.
StartCall(i, p, kind) ==
  /\ nCalls < MaxCalls
  /\ nCalls' = nCalls + 1
  /\ calls[i].pc = "new"
  /\ \A j \in CallIds : j < i => calls[j].pc # "new"
  /\ Commit([(IF kind = "setPair" THEN stop(Ctl) ELSE Ctl) EXCEPT !.hist.halted = FALSE])
  /\ LET made == [NoCall EXCEPT !.p = p, !.kind = kind,
                                !.fromSub = (isConnected /\ sock[ws].acked)]
     IN IF startThrows(p) THEN Settle(i, Rejected(made))
        ELSE /\ calls' = [calls EXCEPT ![i] =
                  [made EXCEPT !.pc = "probe", !.probes = @ + 1]]
             /\ UNCHANGED lastCall
  /\ lives' = IF kind = "setPair" THEN Staled(lives) ELSE lives
  /\ UNCHANGED << inflightDetails, seen, evicted, files, emits, envVars, probeRpcs >>

loadState(fs, p) == fs[stateFile(p)]

\* The preflight settles.  On success: pair and shouldRun are set, the cursor is
\* loaded and backfillOnce runs up to its first await, getSignaturesForAddress.
StartProbeDone(i, outcome) ==
  /\ calls[i].pc = "probe"
  /\ IF probeThrows(outcome)
     THEN /\ Settle(i, Rejected(calls[i]))
          /\ UNCHANGED ctlVars
     ELSE /\ UNCHANGED lastCall
          /\ calls' = [calls EXCEPT ![i].pc = "sigs",
                                    ![i].lookups = @ + 1,
                                    ![i].probeRes = outcome,
                                    ![i].since = loadState(files, calls[i].p).lastSlot]
          /\ Commit([Ctl EXCEPT !.pair = calls[i].p, !.shouldRun = TRUE,
                                !.hist.preflight = IF outcome = "ok" THEN 1 ELSE @])
  /\ UNCHANGED << dataVars, envVars, probeRpcs, nCalls >>

\* ------------------------------------------------------------ backfillOnce
RECURSIVE NewestFirst(_)
NewestFirst(S) ==
  IF S = {} THEN <<>>
  ELSE LET m == CHOOSE x \in S : \A y \in S : TxTab[x].slot >= TxTab[y].slot
       IN <<m>> \o NewestFirst(S \ {m})

\* The result of getSignaturesForAddress(wallet, { limit }): the newest
\* transactions that mention the wallet.
SigsFor(w) ==
  LET all == NewestFirst({g \in chain : Mentions(g, w)})
  IN SubSeq(all, 1, Min(Len(all), BackfillLimit))

\* `if (seen.has(signature)) continue` at the head of the loop
RECURSIVE SkipSeen(_, _)
SkipSeen(todo, sn) ==
  IF todo = <<>> THEN <<>>
  ELSE IF Head(todo) \in Held(sn) THEN SkipSeen(Tail(todo), sn)
  ELSE todo

\* The verdict of txHasWalletMintPair once getTransaction has answered, against
\* the closure's pair p as it is at that moment.
mintSeen(sig, p) == Mint(p) # Null /\ Mint(p) \in TxTab[sig].mints
walletSeen(sig, p) ==
  /\ Wallet(p) # Null
  /\ \/ Wallet(p) \in TxTab[sig].owners
     \/ Wallet(p) \in TxTab[sig].keys
DetailOutcomes == {"ok", "nometa", "fail"}
txHasWalletMintPair(sig, p, outcome) ==
  /\ outcome = "ok"
  /\ mintSeen(sig, p)
  /\ walletSeen(sig, p)

\* The loop of backfillOnce goes on with the candidates left; when none is left
\* backfillOnce returns and start() calls connect().
BackfillGoOn(i, todo, sn) ==
  LET rest == SkipSeen(todo, sn) IN
  IF rest = <<>>
  THEN /\ CanConnect(Ctl)
       /\ Settle(i, Done(calls[i]))
       /\ Commit(connect(Ctl))
  ELSE /\ calls' = [calls EXCEPT ![i].pc = "detail", ![i].cur = Head(rest),
                                 ![i].todo = Tail(rest)]
       /\ UNCHANGED << ctlVars, lastCall >>

\* (variant: the failure of the backfill is raised to the caller of start())
BackfillAbort_raises(i) ==
  /\ Settle(i, [Rejected(calls[i]) EXCEPT !.aborted = TRUE])
  /\ UNCHANGED ctlVars

\* The catch of backfillOnce: the pass ends, start() calls connect().
BackfillAbort(i) ==
  /\ CanConnect(Ctl)
  /\ Settle(i, [Done(calls[i]) EXCEPT !.aborted = TRUE])
  /\ Commit(connect(Ctl))

\* (variant: the cursor takes the item's slot, without the max)
backfillCursor_noMax(st, sig) == [lastSlot |-> TxTab[sig].slot, lastSig |-> sig]

\* onEvent(event), remember(signature) and the cursor write of backfillOnce
backfillCursor(st, sig) ==
  [lastSlot |-> Max(st.lastSlot, TxTab[sig].slot), lastSig |-> sig]

\* (variant: the backfill does not remember what it emits)
EmitBackfill_forgets(sig, p) ==
  /\ emits' = [emits EXCEPT ![sig].bf = @ + 1]
  /\ UNCHANGED << seen, evicted >>
  /\ files' = [files EXCEPT ![stateFile(p)] = backfillCursor(loadState(files, p), sig)]

EmitBackfill(sig, p) ==
  /\ emits' = [emits EXCEPT ![sig].bf = @ + 1]
  /\ seen' = remember(seen, sig)
  /\ evicted' = evicted \cup Dropped(seen, remember(seen, sig))
  /\ files' = [files EXCEPT ![stateFile(p)] = backfillCursor(loadState(files, p), sig)]

BackfillSigs(i, ok) ==
  /\ calls[i].pc = "sigs"
  /\ IF ok THEN BackfillGoOn(i, SigsFor(Wallet(calls[i].p)), seen)
     ELSE BackfillAbort(i)
  /\ UNCHANGED << dataVars, envVars, probeRpcs, nCalls >>

\* (variant: txHasWalletMintPair lets the failure of getTransaction through, the
\* catch of backfillOnce ends the pass)
BackfillDetail_failAborts(i, outcome) ==
  /\ calls[i].pc = "detail"
  /\ IF outcome = "fail"
     THEN /\ BackfillAbort(i)
          /\ UNCHANGED << seen, evicted, files, emits >>
     ELSE IF ~txHasWalletMintPair(calls[i].cur, pair, outcome)
     THEN /\ BackfillGoOn(i, calls[i].todo, seen)
          /\ UNCHANGED << seen, evicted, files, emits >>
     ELSE IF cfgSaveEvent
     THEN /\ calls' = [calls EXCEPT ![i].pc = "save"]
          /\ UNCHANGED << ctlVars, lastCall, seen, evicted, files, emits >>
     ELSE /\ EmitBackfill(calls[i].cur, calls[i].p)
          /\ BackfillGoOn(i, calls[i].todo, remember(seen, calls[i].cur))
  /\ UNCHANGED << inflightDetails, lives, envVars, probeRpcs, nCalls >>

BackfillDetail(i, outcome) ==
  /\ calls[i].pc = "detail"
  /\ IF ~txHasWalletMintPair(calls[i].cur, pair, outcome)
     THEN /\ BackfillGoOn(i, calls[i].todo, seen)
          /\ UNCHANGED << seen, evicted, files, emits >>
     ELSE IF cfgSaveEvent
     THEN /\ calls' = [calls EXCEPT ![i].pc = "save"]
          /\ UNCHANGED << ctlVars, lastCall, seen, evicted, files, emits >>
     ELSE /\ EmitBackfill(calls[i].cur, calls[i].p)
          /\ BackfillGoOn(i, calls[i].todo, remember(seen, calls[i].cur))
  /\ UNCHANGED << inflightDetails, lives, envVars, probeRpcs, nCalls >>

BackfillSave(i, ok) ==
  /\ calls[i].pc = "save"
  /\ IF ok
     THEN /\ EmitBackfill(calls[i].cur, calls[i].p)
          /\ BackfillGoOn(i, calls[i].todo, remember(seen, calls[i].cur))
     ELSE /\ BackfillAbort(i)
          /\ UNCHANGED << seen, evicted, files, emits >>
  /\ UNCHANGED << inflightDetails, lives, envVars, probeRpcs, nCalls >>

\* ---------------------------------------------------------------- live path
LiveIds == 1..MaxNotif
FreeLives == {t \in LiveIds : lives[t].pc = "free"}
\* Fewer than MaxNotif - k notifications have started a detail fetch
LiveBudget(k) == Cardinality(LiveIds \ FreeLives) < MaxNotif - k

\* (variant: no concurrency gate)
admitted_noGate(sig, important, sn, inflight) ==
  /\ sig \notin Held(sn)
  /\ important

\* What a logsNotification does after armIdleRecycle(): TRUE when it is let through
\* to the detail fetch.
admitted(sig, important, sn, inflight) ==
  /\ sig \notin Held(sn)
  /\ important
  /\ inflight < MaxDetailConcurrency

\* History: the last signature a notification carried that the dedup Set held
Duplicate(c, sig) == IF sig \in Held(seen) THEN [c EXCEPT !.hist.dup = sig] ELSE c
\* History: the last signature a notification carried that reached the concurrency
\* gate while inflightDetails >= cfg.maxDetailConcurrency
Gated(c, sig, important) ==
  IF sig \notin Held(seen) /\ important /\ inflightDetails >= MaxDetailConcurrency
  THEN [c EXCEPT !.hist.shed = sig] ELSE c

\* ws.on("message") with method logsNotification on socket s, for a transaction
\* that mentions an address of the subscription; `important` is isImportantLog(logs),
\* slot is params.result.context.slot.
Notified(s, sig, important, slot) ==
  /\ sock[s].st = "open"
  /\ sock[s].lis
  /\ sock[s].acked
  /\ sig \in chain
  /\ \/ Mentions(sig, Wallet(sock[s].sub))
     \/ Mint(sock[s].sub) \in TxTab[sig].mints
  /\ Commit(Gated(Duplicate(armIdleRecycle(Ctl), sig), sig, important))
  /\ IF admitted(sig, important, seen, inflightDetails)
     THEN /\ FreeLives # {}
          /\ LET t == CHOOSE x \in FreeLives : \A y \in FreeLives : x <= y IN
             lives' = [lives EXCEPT ![t] =
               [NoLive EXCEPT !.pc = "fetch", !.sig = sig, !.slot = slot,
                              !.late = (emits[sig].bf > 0)]]
          /\ inflightDetails' = inflightDetails + 1
     ELSE UNCHANGED << lives, inflightDetails >>
  /\ UNCHANGED << seen, evicted, files, emits, envVars, probeRpcs, callVars >>

\* A well-formed logsNotification carries the slot of its transaction.
SockNotify(s, sig, important) == Notified(s, sig, important, TxTab[sig].slot)

\* A message that is not a well-formed notification arrives on socket s:
\*   "badjson"  JSON.parse throws: the catch logs "message parse failed";
\*   "novalue"  a logsNotification without params.result.value (or without context):
\*              armIdleRecycle() has run when the destructuring throws;
\*   "noslot"   a logsNotification for sig whose context has no slot: nothing
\*              throws, the handler goes on with slot undefined.
MalformedShapes == {"badjson", "novalue", "noslot"}
SockMalformed(s, shape, sig) ==
  /\ sock[s].st = "open"
  /\ sock[s].lis
  /\ sock[s].acked
  /\ IF shape = "noslot" THEN Notified(s, sig, TRUE, Undefined)
     ELSE /\ Commit(IF shape = "novalue" THEN armIdleRecycle(Ctl) ELSE Missed(Ctl))
          /\ UNCHANGED << dataVars, envVars, probeRpcs, callVars >>

\* onEvent(event), remember(signature) and the cursor write of the live path,
\* against the closure's pair p as it is at that moment.  JSON.stringify leaves an
\* undefined lastSlot out of the file, and the file is then read as lastSlot 0.
liveCursor(st, sig, slot) ==
  [lastSlot |-> IF slot = Undefined THEN 0 ELSE slot, lastSig |-> sig]

EmitLive(sig, p, slot) ==
  /\ emits' = [emits EXCEPT ![sig].live = @ + 1]
  /\ seen' = remember(seen, sig)
  /\ evicted' = evicted \cup Dropped(seen, remember(seen, sig))
  /\ files' = [files EXCEPT ![stateFile(p)] = liveCursor(loadState(files, p), sig, slot)]

LiveFinished == [NoLive EXCEPT !.pc = "done"]

\* getTransaction of live task t settles: inflightDetails--, then the verdict
LiveDetail(t, outcome) ==
  /\ lives[t].pc = "fetch"
  /\ inflightDetails' = inflightDetails - 1
  /\ IF ~txHasWalletMintPair(lives[t].sig, pair, outcome)
     THEN /\ lives' = [lives EXCEPT ![t] = LiveFinished]
          /\ UNCHANGED << seen, evicted, files, emits >>
     ELSE IF cfgSaveEvent
     THEN /\ lives' = [lives EXCEPT ![t].pc = "save", ![t].evPair = pair]
          /\ UNCHANGED << seen, evicted, files, emits >>
     ELSE /\ lives' = [lives EXCEPT ![t] = LiveFinished]
          /\ EmitLive(lives[t].sig, pair, lives[t].slot)
  /\ UNCHANGED << ctlVars, envVars, probeRpcs, callVars >>

\* cfg.saveEvent(event) of live task t settles; a rejection reaches the .catch,
\* which decrements inflightDetails
LiveSave(t, ok) ==
  /\ lives[t].pc = "save"
  /\ lives' = [lives EXCEPT ![t] = LiveFinished]
  /\ IF ok
     THEN /\ EmitLive(lives[t].sig, pair, lives[t].slot)
          /\ UNCHANGED inflightDetails
     ELSE /\ inflightDetails' = inflightDetails - 1
          /\ UNCHANGED << seen, evicted, files, emits >>
  /\ UNCHANGED << ctlVars, envVars, probeRpcs, callVars >>

\* A run of n live notifications for transactions of the current pair that are newer
\* than those of TxTab, each one fetched, verified, emitted and remembered before the
\* next arrives, while no call and no other detail fetch is under way.
Filler(k) == Len(TxTab) + k
FillerSlot == TxTab[Len(TxTab)].slot + 1
RECURSIVE Trim(_)
Trim(s) == IF Size(s) > SeenCap THEN Trim(DropOldest(s)) ELSE s
rememberAll(s, n) == Trim(Append(s, Run(n)))

LiveBurst(n) ==
  /\ ws # 0
  /\ sock[ws].st = "open"
  /\ sock[ws].lis
  /\ sock[ws].acked
  /\ pair # 0
  /\ sock[ws].sub = pair
  /\ inflightDetails = 0
  /\ \A t \in LiveIds : lives[t].pc \in {"free", "done"}
  /\ \A i \in CallIds : calls[i].pc = "new"
  /\ \A k \in 1..Len(seen) : seen[k].sig # 0
  /\ seen' = rememberAll(seen, n)
  /\ evicted' = evicted \cup Dropped(seen, rememberAll(seen, n))
  /\ files' = [files EXCEPT ![stateFile(pair)] =
                 [lastSlot |-> FillerSlot, lastSig |-> Filler(n)]]
  /\ Commit(armIdleRecycle(Ctl))
  /\ UNCHANGED << inflightDetails, lives, emits, envVars, probeRpcs, callVars >>

\* ------------------------------------------------------------ specification
InitClosure ==
  /\ ws = 0
  /\ sock = [s \in SockIds |-> NoSock]
  /\ timers = NoTimers
  /\ backoffMs = BaseBackoffMs
  /\ pair = 0
  /\ inflightDetails = 0
  /\ seen = <<>>
  /\ shouldRun = FALSE
  /\ orphanProbes = 0
  /\ probeRpcs = 0
  /\ calls = [i \in CallIds |-> NoCall]
  /\ lastCall = NoCall
  /\ nCalls = 0
  /\ lives = [t \in LiveIds |-> NoLive]
  /\ emits = [g \in Sigs |-> NoEmit]
  /\ evicted = {}
  /\ hist = NoHist

Init ==
  /\ InitClosure
  /\ files = [k \in FileKeys |-> NoState]
  /\ cfgSaveEvent \in BOOLEAN
  /\ chain = Sigs

SocketStep ==
  \E s \in SockIds :
    \/ SockOpen(s)
    \/ SockAck(s)
    \/ SockPong(s)
    \/ \E e \in BOOLEAN : SockDrop(s, e)
    \/ SockUnexpected(s)
    \/ SockClose(s)

TimerStep ==
  \/ PingTick
  \/ LivenessFire
  \/ IdleFire
  \/ ProbeTimerFire
  \/ OrphanTimerFire
  \/ \E ok \in BOOLEAN : ProbeRpcDone(ok)

CallStep(ps) ==
  \/ \E i \in CallIds, p \in ps, k \in {"start", "setPair"} : StartCall(i, p, k)
  \/ \E i \in CallIds, o \in ProbeOutcomes : StartProbeDone(i, o)
  \/ Stop

BackfillStep ==
  \E i \in CallIds :
    \/ \E ok \in BOOLEAN : BackfillSigs(i, ok)
    \/ \E o \in DetailOutcomes : BackfillDetail(i, o)
    \/ \E ok \in BOOLEAN : BackfillSave(i, ok)

LiveStep ==
  \/ \E s \in SockIds, g \in Sigs, imp \in BOOLEAN : SockNotify(s, g, imp)
  \/ \E s \in SockIds, g \in Sigs, m \in MalformedShapes : SockMalformed(s, m, g)
  \/ \E t \in LiveIds, o \in DetailOutcomes : LiveDetail(t, o)
  \/ \E t \in LiveIds, ok \in BOOLEAN : LiveSave(t, ok)
  \/ \E n \in {SeenCap - 1, SeenCap} : LiveBurst(n)

Next ==
  \/ SocketStep
  \/ TimerStep
  \/ CallStep(PairIds)
  \/ BackfillStep
  \/ LiveStep

Spec == Init /\ [][Next]_vars

\* The specifications below restrict the environment of Spec, so that each can be
\* explored exhaustively.
InitWith(ch, se) ==
  /\ InitClosure
  /\ files = [k \in FileKeys |-> NoState]
  /\ cfgSaveEvent = se
  /\ chain = ch

ReconnectStep ==
  \/ ProbeTimerFire
  \/ OrphanTimerFire
  \/ \E ok \in BOOLEAN : ProbeRpcDone(ok)

\* SpecStart: start(), setPair() and stop() with any pair of PairTab on an empty
\* ledger, the caller awaiting each call before it makes the next (stop() included); sockets open, are
\* acknowledged and close; reconnect probes run.  No socket is lost, no heartbeat or
\* idle timeout elapses, no notification arrives and the history lookup is answered.
Awaited == \A j \in CallIds : calls[j].pc = "new"
NextStart ==
  \/ \E s \in SockIds :
       \/ SockOpen(s)
       \/ SockAck(s)
       \/ SockClose(s)
  \/ ReconnectStep
  \/ \E i \in CallIds, p \in PairIds, k \in {"start", "setPair"} :
       /\ nCalls < MaxCalls - 1
       /\ Awaited
       /\ StartCall(i, p, k)
  \/ \E i \in CallIds, o \in ProbeOutcomes : StartProbeDone(i, o)
  \/ Awaited /\ Stop
  \/ \E i \in CallIds : BackfillSigs(i, TRUE)

SpecStart == InitWith({}, FALSE) /\ [][NextStart]_vars

\* SpecSupervise: start() with a well-formed pair and stop() on an empty ledger, the
\* caller awaiting each start() before it makes the next call, with every socket event
\* and every timer; no notification arrives and the history lookup is answered.
SupervisedPairs == {1}
NextSupervise ==
  \/ SocketStep
  \/ TimerStep
  \/ \E i \in CallIds, p \in SupervisedPairs :
       /\ nCalls < MaxCalls - 1
       /\ Awaited
       /\ StartCall(i, p, "start")
  \/ \E i \in CallIds, o \in {"ok", "http"} : StartProbeDone(i, o)
  \/ Awaited /\ Stop
  \/ \E i \in CallIds : BackfillSigs(i, TRUE)

SpecSupervise == InitWith({}, FALSE) /\ [][NextSupervise]_vars

\* SpecHalt: start() with a well-formed pair on an empty ledger and stop() at any
\* time, while a start() is awaiting its preflight or its backfill included; sockets
\* open, are acknowledged, are lost and close; reconnect probes run; the history
\* lookup is answered.
NextHalt ==
  \/ \E s \in SockIds :
       \/ SockOpen(s)
       \/ SockAck(s)
       \/ SockDrop(s, FALSE)
       \/ SockClose(s)
  \/ ReconnectStep
  \/ \E i \in CallIds, p \in SupervisedPairs :
       /\ nCalls < MaxCalls - 1
       /\ Awaited
       /\ StartCall(i, p, "start")
  \/ \E i \in CallIds, o \in {"ok", "http"} : StartProbeDone(i, o)
  \/ Stop
  \/ \E i \in CallIds : BackfillSigs(i, TRUE)

SpecHalt == InitWith({}, FALSE) /\ [][NextHalt]_vars

\* SpecSetPair: start() and setPair() with two well-formed pairs on an empty ledger,
\* the caller awaiting each call before it makes the next, every request answered
\* successfully; sockets open, are acknowledged and are lost.  The "close" of a socket
\* is emitted in the turn of the event loop in which the socket was destroyed, so it
\* is delivered before any answer from the network and before any timer.
SetPairPairs == {1, 3}
ClosePending == \E s \in SockIds : sock[s].st = "closing" /\ sock[s].lis
NextSetPair ==
  \/ \E s \in SockIds : SockClose(s)
  \/ \E s \in SockIds : ~ClosePending /\ SockOpen(s)
  \/ \E s \in SockIds : ~ClosePending /\ SockAck(s)
  \/ \E s \in SockIds : ~ClosePending /\ SockDrop(s, FALSE)
  \/ ~ClosePending /\ ProbeTimerFire
  \/ ~ClosePending /\ ProbeRpcDone(TRUE)
  \/ \E i \in CallIds : ~ClosePending /\ StartProbeDone(i, "ok")
  \/ \E i \in CallIds : ~ClosePending /\ BackfillSigs(i, TRUE)
  \/ \E i \in CallIds, p \in SetPairPairs, k \in {"start", "setPair"} :
       /\ Awaited
       /\ StartCall(i, p, k)

SpecSetPair == InitWith({}, FALSE) /\ [][NextSetPair]_vars

\* SpecData: one start() with the pair (WalletA, MintA) on the full ledger, with
\* and without cfg.saveEvent; sockets open and are acknowledged; the backfill and the live path run with every
\* outcome of their requests, all but two of the MaxNotif detail fetches of the live
\* path being used.
DataPairs == {1}
NextData ==
  \/ \E s \in SockIds :
       \/ SockOpen(s)
       \/ SockAck(s)
  \/ \E i \in CallIds, p \in DataPairs :
       /\ nCalls = 0
       /\ StartCall(i, p, "start")
  \/ \E i \in CallIds : StartProbeDone(i, "ok")
  \/ BackfillStep
  \/ \E s \in SockIds, g \in Sigs, imp \in BOOLEAN :
       LiveBudget(2) /\ SockNotify(s, g, imp)
  \/ \E t \in LiveIds, o \in DetailOutcomes : LiveDetail(t, o)
  \/ \E t \in LiveIds, ok \in BOOLEAN : LiveSave(t, ok)
  \/ \E n \in {SeenCap - 1, SeenCap} : LiveBurst(n)

SpecData == (\E se \in BOOLEAN : InitWith(Sigs, se)) /\ [][NextData]_vars

\* SpecSwitch: start() and then setPair() with two well-formed pairs on a ledger
\* that holds one transaction of each, with and without cfg.saveEvent, the caller awaiting each call before it
\* makes the next; the preflight succeeds and getSignaturesForAddress fails, so that
\* the backfill emits nothing; sockets open, are acknowledged and close; live
\* notifications arrive (all but two of the MaxNotif detail fetches being used) and
\* their detail fetches settle at any time.
SwitchKind == IF nCalls = 0 THEN "start" ELSE "setPair"
NextSwitch ==
  \/ \E s \in SockIds :
       \/ SockOpen(s)
       \/ SockAck(s)
       \/ SockClose(s)
  \/ \E i \in CallIds, p \in SetPairPairs :
       /\ nCalls < MaxCalls - 1
       /\ Awaited
       /\ StartCall(i, p, SwitchKind)
  \/ \E i \in CallIds : StartProbeDone(i, "ok")
  \/ \E i \in CallIds : BackfillSigs(i, FALSE)
  \/ \E s \in SockIds, g \in Sigs : LiveBudget(2) /\ SockNotify(s, g, TRUE)
  \/ \E t \in LiveIds, o \in DetailOutcomes : LiveDetail(t, o)
  \/ \E t \in LiveIds, ok \in BOOLEAN : LiveSave(t, ok)

SwitchChain == {1, 4}
SpecSwitch == (\E se \in BOOLEAN : InitWith(SwitchChain, se)) /\ [][NextSwitch]_vars

\* SpecRecover: one start() with the pair (WalletA, MintA) on an empty ledger and no
\* stop(), with every socket event and every timer.  The event loop delivers the
\* close of a terminated socket and fires the reconnect timers, and the network is
\* eventually healthy: a reconnect probe that is sent again and again is eventually
\* answered.
NextRecover ==
  \/ SocketStep
  \/ PingTick
  \/ LivenessFire
  \/ IdleFire
  \/ ProbeTimerFire
  \/ \E ok \in BOOLEAN : ProbeRpcDone(ok)
  \/ \E i \in CallIds, p \in SupervisedPairs :
       /\ nCalls = 0
       /\ StartCall(i, p, "start")
  \/ \E i \in CallIds : StartProbeDone(i, "ok")
  \/ \E i \in CallIds, ok \in BOOLEAN : BackfillSigs(i, ok)

FairRecover ==
  /\ WF_vars(\E s \in SockIds : SockClose(s))
  /\ WF_vars(ProbeTimerFire)
  /\ SF_vars(ProbeRpcDone(TRUE))

SpecRecover == InitWith({}, FALSE) /\ [][NextRecover]_vars /\ FairRecover

\* SpecResume: start() and setPair() with the pair (WalletA, MintA) on a ledger that
\* holds one transaction of the pair, the caller awaiting each call before it makes
\* the next; the preflight succeeds, the backfill runs with every outcome; sockets
\* open, are acknowledged, are lost and close; reconnect probes run.
ResumeChain == {1}
NextResume ==
  \/ \E s \in SockIds :
       \/ SockOpen(s)
       \/ SockAck(s)
       \/ SockDrop(s, FALSE)
       \/ SockClose(s)
  \/ ProbeTimerFire
  \/ \E ok \in BOOLEAN : ProbeRpcDone(ok)
  \/ \E i \in CallIds, p \in DataPairs, k \in {"start", "setPair"} :
       /\ nCalls < MaxCalls - 1
       /\ Awaited
       /\ StartCall(i, p, k)
  \/ \E i \in CallIds : StartProbeDone(i, "ok")
  \/ \E i \in CallIds, ok \in BOOLEAN : BackfillSigs(i, ok)
  \/ \E i \in CallIds, o \in DetailOutcomes : BackfillDetail(i, o)

SpecResume == InitWith(ResumeChain, FALSE) /\ [][NextResume]_vars

\* SpecGate: start() with the pair (WalletA, MintA), once, with and without
\* cfg.saveEvent; the preflight succeeds and getSignaturesForAddress fails, so that
\* the backfill emits nothing; the socket opens and is acknowledged; notifications
\* for transactions that mention the pair arrive, all but one of the MaxNotif detail
\* fetches of the live path being used, and the fetches and saveEvent settle with
\* every outcome.  SpecFlood is the same with all MaxNotif detail fetches.
NextGate ==
  \/ \E s \in SockIds :
       \/ SockOpen(s)
       \/ SockAck(s)
  \/ \E i \in CallIds, p \in DataPairs :
       /\ nCalls = 0
       /\ StartCall(i, p, "start")
  \/ \E i \in CallIds : StartProbeDone(i, "ok")
  \/ \E i \in CallIds : BackfillSigs(i, FALSE)
  \/ \E s \in SockIds, g \in Sigs, imp \in BOOLEAN :
       LiveBudget(1) /\ SockNotify(s, g, imp)
  \/ \E t \in LiveIds, o \in DetailOutcomes : LiveDetail(t, o)
  \/ \E t \in LiveIds, ok \in BOOLEAN : LiveSave(t, ok)

SpecGate == (\E se \in BOOLEAN : InitWith(Sigs, se)) /\ [][NextGate]_vars

NextFlood ==
  \/ \E s \in SockIds :
       \/ SockOpen(s)
       \/ SockAck(s)
  \/ \E i \in CallIds, p \in DataPairs :
       /\ nCalls = 0
       /\ StartCall(i, p, "start")
  \/ \E i \in CallIds : StartProbeDone(i, "ok")
  \/ \E i \in CallIds : BackfillSigs(i, FALSE)
  \/ \E s \in SockIds, g \in Sigs, imp \in BOOLEAN : SockNotify(s, g, imp)
  \/ \E t \in LiveIds, o \in DetailOutcomes : LiveDetail(t, o)
  \/ \E t \in LiveIds, ok \in BOOLEAN : LiveSave(t, ok)

SpecFlood == InitWith(Sigs, TRUE) /\ [][NextFlood]_vars

\* SpecNoise: as SpecGate without cfg.saveEvent, and with messages that are not
\* well-formed notifications.
NextNoise ==
  \/ \E s \in SockIds :
       \/ SockOpen(s)
       \/ SockAck(s)
  \/ \E i \in CallIds, p \in DataPairs :
       /\ nCalls = 0
       /\ StartCall(i, p, "start")
  \/ \E i \in CallIds : StartProbeDone(i, "ok")
  \/ \E i \in CallIds : BackfillSigs(i, FALSE)
  \/ \E s \in SockIds, g \in Sigs, imp \in BOOLEAN :
       LiveBudget(1) /\ SockNotify(s, g, imp)
  \/ \E s \in SockIds, g \in Sigs, m \in MalformedShapes :
       LiveBudget(1) /\ SockMalformed(s, m, g)
  \/ \E t \in LiveIds, o \in DetailOutcomes : LiveDetail(t, o)

SpecNoise == InitWith(Sigs, FALSE) /\ [][NextNoise]_vars

\* -------------------------------------------------------------- properties
MalformedIds == {Null, TooShort, TooLong, BadZero, BadEll}
MalformedPairs ==
  {p \in PairIds : PairTab[p].wallet \in MalformedIds \/ PairTab[p].mint \in MalformedIds}
InProgress == {"probe", "sigs", "detail", "save"}

\* A step in which the caller invokes start() or setPair(), and the call it makes
CallMade == nCalls' = nCalls + 1
Accepted == \E i \in CallIds : calls[i].pc = "new" /\ calls'[i].pc = "probe"
MadeCall ==
  IF Accepted
  THEN calls'[CHOOSE i \in CallIds : calls[i].pc = "new" /\ calls'[i].pc = "probe"]
  ELSE lastCall'

\* A step in which connect() creates a socket
NewSocket ==
  /\ ws' # 0
  /\ sock'[ws'].st = "connecting"
  /\ ws' = ws => sock[ws].st # "connecting"

\* C3: start() with a pair whose wallet or mint is missing or fails the base58
\* length-32..44 check rejects at once, issues no probe and no RPC, creates no socket
\* and leaves pair, shouldRun, ws and timers as they were.
C3_MalformedPairRejected ==
  [][ (CallMade /\ MadeCall.p \in MalformedPairs) =>
        /\ ~Accepted
        /\ lastCall'.pc = "rejected"
        /\ lastCall'.probes = 0
        /\ probeRpcs' = probeRpcs
        /\ MadeCall.kind = "start" =>
             UNCHANGED << pair, shouldRun, ws, timers, sock, orphanProbes >> ]_vars

\* C3 witness: a running client has rejected start() with a malformed pair.
C3_Witness ==
  /\ lastCall.pc = "rejected"
  /\ lastCall.kind = "start"
  /\ lastCall.p \in MalformedPairs
  /\ lastCall.probes = 0
  /\ shouldRun
  /\ ws # 0
  /\ pair # 0

\* C4: a start() call issues exactly one connectivity probe, and no socket is
\* created and no logsSubscribe is sent before a probe has succeeded; a call reaches
\* its backfill only with a successful probe.
C4_OneProbeBeforeConnect ==
  /\ \A i \in CallIds :
       /\ calls[i].probes <= 1
       /\ calls[i].pc \in InProgress => calls[i].probes = 1
       /\ calls[i].pc \in {"sigs", "detail", "save"} => calls[i].probeRes = "ok"
  /\ lastCall.pc = "done" => lastCall.probes = 1 /\ lastCall.probeRes = "ok"
  /\ (hist.created = 1 \/ hist.subs = 1) => hist.preflight = 1

\* C4 witness: a start() has resolved and the subscription request was sent.
C4_Witness ==
  /\ lastCall.pc = "done"
  /\ hist.subs = 1
  /\ ws # 0
  /\ sock[ws].sub = lastCall.p

\* C5: when the probe of start() fails the call rejects, runs no backfill, creates
\* no socket and leaves pair and shouldRun (and the rest of the closure) as they were;
\* a call goes on to its backfill only when the probe succeeded.
C5_ProbeFailureRejects ==
  [][ \A i \in CallIds : calls[i].pc = "probe" =>
        /\ calls'[i].pc = "new" =>
             /\ lastCall'.pc = "rejected"
             /\ UNCHANGED << pair, shouldRun, ws, sock, timers, orphanProbes,
                             probeRpcs, hist >>
        /\ calls'[i].pc \notin {"probe", "new"} => calls'[i].probeRes = "ok" ]_vars

\* C5 witness: start() with a well-formed pair was rejected by its probe while the
\* client kept running with another pair.
C5_Witness ==
  /\ lastCall.pc = "rejected"
  /\ lastCall.probes = 1
  /\ lastCall.p \notin MalformedPairs
  /\ shouldRun
  /\ pair # 0
  /\ pair # lastCall.p
  /\ ws # 0

\* C10: setPair() called while subscribed terminates the old socket and clears the
\* timers at once, loads the new pair's cursor for its backfill, and no socket is
\* created while that backfill has not finished.
C10_SetPairBackfillThenSocket ==
  [][ /\ (CallMade /\ MadeCall.kind = "setPair" /\ MadeCall.fromSub) =>
           /\ ws' = 0
           /\ ~shouldRun'
           /\ timers' = NoTimers
           /\ sock'[ws].st = "closing"
      /\ \A i \in CallIds :
           /\ (calls[i].pc = "probe" /\ calls'[i].pc = "sigs") =>
                calls'[i].since = files[stateFile(calls[i].p)].lastSlot
           /\ ( /\ calls[i].kind = "setPair"
                /\ calls[i].fromSub
                /\ calls[i].pc \in InProgress
                /\ calls'[i].pc \in InProgress ) => ~NewSocket ]_vars

\* The delays the claim C6 lists, by position in a run of consecutive reconnects
ClaimedDelay(n) == IF n <= 5 THEN << 1000, 1500, 2250, 3375, 5000 >>[n] ELSE 5000
\* The delays obtained by multiplying before waiting
MultipliedDelay(n) == IF n <= 4 THEN << 1500, 2250, 3375, 5000 >>[n] ELSE 5000

\* C6 (as stated): the delays of consecutive reconnect attempts are 1000, 1500,
\* 2250, 3375, 5000, 5000, ...: the first waits the base 1000ms, none exceeds the cap.
C6_DelaysStartAtBase ==
  hist.sched >= 1 => hist.delay = ClaimedDelay(hist.sched) /\ hist.delay <= 5000

\* C6 (amended): the delays of consecutive reconnect attempts with no socket open in
\* between are 1500, 2250, 3375, 5000, 5000, ...: the multiplier is applied before the
\* wait, so the first reconnect waits 1500ms, and no delay exceeds the cap of 5000ms.
C6_DelaysMultipliedFirst ==
  /\ backoffMs >= 1000
  /\ backoffMs <= 5000
  /\ hist.sched >= 1 =>
       /\ hist.delay = MultipliedDelay(hist.sched)
       /\ hist.delay = backoffMs
       /\ hist.delay <= 5000

\* C6 witness: a fifth consecutive reconnect was scheduled, at the cap.
C6_Witness ==
  /\ hist.sched >= 5
  /\ hist.delay = 5000
  /\ timers.probe = "armed"

\* C7: the backoff returns to the base value only in a step in which a subscription
\* acknowledgment is received; a socket that merely opens does not reset it.
C7_ResetOnlyOnAck ==
  [][ (backoffMs # BaseBackoffMs /\ backoffMs' = BaseBackoffMs) =>
        \E s \in SockIds : ~sock[s].acked /\ sock'[s].acked ]_vars

\* C8: while the client runs, an open socket always has its idle-recycle timer
\* armed; once that timer has fired on the open socket, the socket is terminated, and
\* when its close has been delivered a reconnect is scheduled or its probe is under way.
C8_IdleRecycle ==
  /\ (shouldRun /\ ws # 0 /\ sock[ws].st = "open") => timers.idle = "armed"
  /\ (shouldRun /\ hist.why = "idle") =>
       /\ ws # 0
       /\ sock[ws].st \in {"closing", "closed"}
       /\ sock[ws].st = "closed" => (timers.probe = "armed" \/ probeRpcs > 0)

\* C8 witness: the idle timer fired, the socket has closed and a reconnect is scheduled.
C8_Witness ==
  /\ shouldRun
  /\ hist.why = "idle"
  /\ sock[ws].st = "closed"
  /\ timers.probe = "armed"

\* C9: once the liveness timer has fired on the open socket of a running client, the
\* socket is terminated, and when its close has been delivered a reconnect is scheduled
\* or its probe is under way; after a pong the liveness timer is not pending, and the
\* liveness timer never terminates a socket whose last ping was answered.
C9_LivenessTimeout ==
  /\ (shouldRun /\ hist.why = "liveness") =>
       /\ ws # 0
       /\ sock[ws].st \in {"closing", "closed"}
       /\ sock[ws].st = "closed" => (timers.probe = "armed" \/ probeRpcs > 0)
       /\ ~hist.ponged
  /\ hist.ponged => timers.liveness # "armed"

\* C9 witness: a ping went unanswered, the socket has closed and a reconnect is
\* scheduled.
C9_Witness ==
  /\ shouldRun
  /\ hist.why = "liveness"
  /\ ~hist.ponged
  /\ sock[ws].st = "closed"
  /\ timers.probe = "armed"

\* C1: onEvent is invoked at most once for a given signature, whatever backfill
\* items and live notifications carry it (two notifications with the same signature
\* arriving while the first one's detail fetch is in flight included).
C1_AtMostOnce == \A g \in Sigs : emits[g].bf + emits[g].live <= 1

\* C2 (as stated): a signature emitted by the backfill is never let through to the
\* detail fetch, and so never emitted, when it later arrives as a live notification.
C2_BackfilledNeverLive ==
  \A t \in LiveIds : lives[t].pc \in {"fetch", "save"} => ~lives[t].late

\* C2 (amended): a signature emitted by the backfill is not let through to the
\* detail fetch when it later arrives as a live notification, as long as the dedup Set
\* still holds it: it is let through only after the Set, full with 5000 signatures,
\* has dropped it.
C2_BackfilledLiveOnlyAfterEviction ==
  \A t \in LiveIds :
    (lives[t].pc \in {"fetch", "save"} /\ lives[t].late) => lives[t].sig \in evicted

\* C2 witness: a signature the backfill emitted arrived as a live notification while
\* the dedup Set held it, and no detail fetch was started for it.
C2_Witness ==
  \E g \in Sigs :
    /\ emits[g].bf = 1
    /\ emits[g].live = 0
    /\ g \in Held(seen)
    /\ hist.dup = g
    /\ \A t \in LiveIds : lives[t].sig # g

\* A step in which live task t invokes onEvent, and the pair its event carries
LiveEmits(t) ==
  /\ lives[t].pc \in {"fetch", "save"}
  /\ lives'[t].pc = "done"
  /\ emits'[lives[t].sig].live = emits[lives[t].sig].live + 1
EventPair(t) == IF lives[t].pc = "save" THEN lives[t].evPair ELSE pair

\* C11: once setPair() has been called, onEvent is not invoked for a notification
\* that had arrived before that call (one whose detail fetch was in flight included), and
\* once setPair() has returned every event emitted carries the pair it was given.
C11_NoStaleEvents ==
  [][ \A t \in LiveIds : LiveEmits(t) =>
        /\ ~lives[t].stale
        /\ (Awaited /\ lastCall.kind = "setPair" /\ lastCall.pc = "done") =>
             EventPair(t) = lastCall.p ]_vars

\* C12: stop(), called in any state (Disconnected, Connecting, Subscribed or
\* Reconnecting), leaves shouldRun false, the four timers cleared and no socket held,
\* the socket it held being terminated; a second stop() changes nothing.
C12_StopIdempotent ==
  LET once == stop(Ctl)
      twice == stop(once)
  IN /\ ~once.shouldRun
     /\ once.timers = NoTimers
     /\ once.ws = 0
     /\ ws # 0 => once.sock[ws].st \in {"closing", "closed"}
     /\ twice = once

\* C12 witness: stop() was called on a subscribed client: its socket is terminated
\* and not held any more, no timer is armed; and stop() is called again.
C12_Witness ==
  /\ ~shouldRun
  /\ ws = 0
  /\ timers = NoTimers
  /\ \E s \in SockIds : sock[s].st = "closing" /\ sock[s].acked
  /\ stop(Ctl) = Ctl

\* A step in which a reconnect is scheduled, and one in which a socket opens
NewReconnect == timers.probe # "armed" /\ timers'.probe = "armed"
Opens == \E s \in SockIds : sock[s].st # "open" /\ sock'[s].st = "open"

\* C13: once stop() has returned, and as long as the caller invokes neither start()
\* nor setPair(), no socket is created or opened and no reconnect is scheduled,
\* whatever was pending when stop() was called (a start() awaiting its probe or its
\* backfill included).
C13_StopIsFinal ==
  [][ (hist.halted /\ hist'.halted) =>
        /\ ~NewSocket
        /\ ~Opens
        /\ ~NewReconnect ]_vars

\* Backfill call i is at a candidate; it emits its event; it leaves the candidate
AtItem(i) == calls[i].pc \in {"detail", "save"}
BackfillEmits(i) ==
  /\ AtItem(i)
  /\ emits'[calls[i].cur].bf = emits[calls[i].cur].bf + 1
ItemLeft(i) == AtItem(i) /\ calls'[i] # calls[i] /\ ~(calls'[i].pc = "save")
\* Both checks on the transaction of signature g, for pair p
BothChecks(g, p) ==
  /\ PairTab[p].mint \in TxTab[g].mints
  /\ PairTab[p].wallet \in TxTab[g].owners \cup TxTab[g].keys
DataUnchanged == UNCHANGED << seen, files, emits >>
BackfillRules(i) ==
  /\ (calls'[i].pc = "detail" /\ calls'[i] # calls[i]) => calls'[i].cur \notin Held(seen')
  /\ (calls'[i].pc = "save" /\ calls[i].pc = "detail") =>
       BothChecks(calls[i].cur, calls[i].p) /\ DataUnchanged
  /\ BackfillEmits(i) =>
       /\ BothChecks(calls[i].cur, calls[i].p)
       /\ emits' = [emits EXCEPT ![calls[i].cur].bf = @ + 1]
       /\ calls[i].cur \in Held(seen')
       /\ files' = [files EXCEPT ![stateFile(calls[i].p)] =
             [lastSlot |-> Max(files[stateFile(calls[i].p)].lastSlot,
                               TxTab[calls[i].cur].slot),
              lastSig |-> calls[i].cur]]
  /\ (ItemLeft(i) /\ ~BothChecks(calls[i].cur, calls[i].p)) =>
       ~BackfillEmits(i) /\ DataUnchanged
  /\ (BackfillDetail(i, "ok") /\ BothChecks(calls[i].cur, calls[i].p)) =>
       (BackfillEmits(i) \/ calls'[i].pc = "save")

\* C14 (as stated): a backfill candidate is emitted if and only if it is not in the
\* dedup Set and its transaction passes both checks (mint in the token balances,
\* wallet an owner or an account key); what is emitted is remembered and moves the
\* cursor to max(previous, slot); what fails a check emits nothing and leaves the
\* cursor alone.
C14_BackfillEmitsIff ==
  [][ \A i \in CallIds :
        /\ BackfillRules(i)
        /\ (ItemLeft(i) /\ calls[i].pc = "save") => BackfillEmits(i) ]_vars

\* C14 (amended): as stated, except that with cfg.saveEvent configured a candidate
\* that passes both checks is emitted only once saveEvent(event) has resolved: when
\* saveEvent rejects, the candidate is not emitted, the dedup Set and the cursor are
\* left alone and the pass ends there.
C14_BackfillEmitsUnlessSaveFails ==
  [][ \A i \in CallIds :
        /\ BackfillRules(i)
        /\ (ItemLeft(i) /\ calls[i].pc = "save") =>
             \/ BackfillEmits(i)
             \/ DataUnchanged /\ calls'[i].pc = "new" /\ lastCall'.pc = "done" ]_vars

\* C14 witness: the backfill for (WalletA, MintA) has emitted and remembered the two
\* transactions of the pair, newest first, has passed over the one with another mint,
\* and the cursor is at the greater slot.
C14_Witness ==
  /\ lastCall.pc = "done"
  /\ lastCall.p = 1
  /\ emits[1].bf = 1
  /\ emits[2].bf = 1
  /\ emits[3].bf = 0
  /\ {1, 2} \subseteq Held(seen)
  /\ 3 \notin Held(seen)
  /\ files[stateFile(1)] = [lastSlot |-> 20, lastSig |-> 1]

\* The detail fetches of the live path that are under way
Fetching == {t \in LiveIds : lives[t].pc = "fetch"}

\* C15: a notification that arrives while inflightDetails is at or above
\* maxDetailConcurrency starts no detail fetch, emits nothing, leaves the counter, the
\* dedup Set and the cursor as they were and does not touch the socket.
C15_DroppedAtCapacity ==
  [][ \A s \in SockIds, g \in Sigs, imp \in BOOLEAN :
        (inflightDetails >= MaxDetailConcurrency /\ SockNotify(s, g, imp)) =>
          /\ UNCHANGED << lives, inflightDetails, seen, files, emits >>
          /\ UNCHANGED << ws, sock, shouldRun, backoffMs, probeRpcs, orphanProbes >>
          /\ timers' = [timers EXCEPT !.idle = "armed"] ]_vars

\* C15 witness: with two detail fetches under way a third notification, important
\* and not a duplicate, was dropped: no fetch was started for it, nothing was emitted
\* and the socket is still open.
C15_Witness ==
  /\ hist.shed # 0
  /\ inflightDetails = MaxDetailConcurrency
  /\ Cardinality(Fetching) = MaxDetailConcurrency
  /\ \A t \in LiveIds : lives[t].pc # "free" => lives[t].sig # hist.shed
  /\ emits[hist.shed] = NoEmit
  /\ hist.shed \notin Held(seen)
  /\ isConnected

\* C16: the number of detail fetches of the live path that are under way never
\* exceeds maxDetailConcurrency, whatever notifications arrive and however the
\* fetches and the saveEvent callback settle.
C16_FetchesBounded == Cardinality(Fetching) <= MaxDetailConcurrency

\* C17: the lastSlot of a persisted cursor never decreases, whatever backfill and
\* live emissions write it (live emissions whose detail fetches complete out of slot
\* order included).
C17_CursorMonotone ==
  [][ \A k \in FileKeys : files'[k].lastSlot >= files[k].lastSlot ]_vars

\* A step in which getSignaturesForAddress is requested; a step of the reconnect
\* path: a socket's close is delivered, the reconnect timer fires, the reconnect
\* probe is answered
LookupIssued ==
  \E i \in CallIds : calls'[i].pc = "sigs" /\ calls'[i] # calls[i]
CloseDelivered == \E s \in SockIds : SockClose(s)
ProbeFired == probeRpcs' > probeRpcs
ProbeAnswered == probeRpcs' < probeRpcs

\* C18: every start() and setPair() whose preflight succeeds runs the backfill
\* exactly once (a rejected call runs none), and no step of the path close ->
\* scheduleReconnect -> probe -> connect requests the history or emits a backfill
\* event.
C18_BackfillOnlyOnStart ==
  [][ /\ \A i \in CallIds :
           /\ calls'[i].pc \in {"sigs", "detail", "save"} => calls'[i].lookups = 1
           /\ calls'[i].pc \in {"new", "probe"} => calls'[i].lookups = 0
      /\ lastCall'.pc = "done" => lastCall'.lookups = 1
      /\ lastCall'.pc = "rejected" => lastCall'.lookups = 0
      /\ LookupIssued =>
           \E i \in CallIds : calls[i].pc = "probe" /\ calls'[i].pc = "sigs"
      /\ (CloseDelivered \/ ProbeFired \/ ProbeAnswered) =>
           /\ ~LookupIssued
           /\ UNCHANGED << calls, lastCall >>
           /\ \A g \in Sigs : emits'[g].bf = emits[g].bf ]_vars

\* C18 witness: start() ran its backfill, which emitted the pair's transaction; the
\* socket opened and was lost, a reconnect was scheduled, its probe was answered and
\* connect() created a socket that is connecting: no call was made, no lookup issued
\* and still one backfill event emitted.
C18_Witness ==
  /\ nCalls = 1
  /\ Awaited
  /\ lastCall.pc = "done"
  /\ lastCall.lookups = 1
  /\ emits[1].bf = 1
  /\ hist.sched >= 1
  /\ probeRpcs = 0
  /\ timers.probe # "armed"
  /\ ws # 0
  /\ sock[ws].st = "connecting"

\* The client runs (start() has completed, stop() was not called); it holds a socket
\* that is connecting or open; the socket it holds was terminated and its close is
\* yet to be delivered; a reconnect timer or a reconnect probe is pending
Running == shouldRun /\ Awaited
HasSocket == ws # 0 /\ sock[ws].st \in {"connecting", "open"}
CloseAwaited == ws # 0 /\ sock[ws].st = "closing" /\ sock[ws].lis
ReconnectPending == timers.probe = "armed" \/ probeRpcs > 0

\* C19: the error and the close of a socket never settle or reject a call of the
\* caller; whenever the client runs and holds no socket that is connecting, open or
\* about to deliver its close, a reconnect timer or a reconnect probe is pending;
\* and, the timers firing and the probe being eventually answered, the client then
\* comes to hold a connecting socket again.
C19_AlwaysReconnects ==
  /\ [][ (\E s \in SockIds : SockClose(s)) => UNCHANGED << calls, lastCall >> ]_vars
  /\ []((Running /\ ~HasSocket /\ ~CloseAwaited) => ReconnectPending)
  /\ ((Running /\ ~HasSocket) ~> HasSocket)

\* C19 witness: the socket of a running client has closed and the reconnect timer is
\* armed.
C19_Witness ==
  /\ Running
  /\ lastCall.pc = "done"
  /\ ws # 0
  /\ sock[ws].st = "closed"
  /\ timers.probe = "armed"
  /\ probeRpcs = 0

\* C20: a message that cannot be parsed, or a logsNotification that lacks an expected
\* field, does not terminate the socket, schedules no reconnect, starts nothing and
\* leaves inflightDetails, the dedup Set and the cursor as they were; no event is ever
\* emitted for it.
C20_MalformedDiscarded ==
  [][ /\ \A s \in SockIds, g \in Sigs, m \in MalformedShapes :
           SockMalformed(s, m, g) =>
             /\ UNCHANGED << ws, sock, shouldRun, backoffMs, probeRpcs, orphanProbes >>
             /\ timers'.probe = timers.probe
             /\ UNCHANGED << inflightDetails, lives, seen, files, emits >>
      /\ \A t \in LiveIds : lives[t].slot = Undefined => ~LiveEmits(t) ]_vars

\* SpecSettle: start() with a well-formed or a malformed pair on a ledger that holds
\* transactions, the caller awaiting each call; sockets open and are acknowledged.
\* Every request made through rpc() is answered or aborted by its timer
\* (rpcTimeoutMs), and cfg.saveEvent settles; the preflight fetch of start() has no
\* timer, the remote end may leave it unanswered for ever.
SettlePairs == {1, 4}
SettleChain == {1, 2}
NextSettle ==
  \/ \E s \in SockIds :
       \/ SockOpen(s)
       \/ SockAck(s)
  \/ \E i \in CallIds, p \in SettlePairs :
       /\ Awaited
       /\ StartCall(i, p, "start")
  \/ \E i \in CallIds, o \in ProbeOutcomes : StartProbeDone(i, o)
  \/ \E i \in CallIds, ok \in BOOLEAN : BackfillSigs(i, ok)
  \/ \E i \in CallIds, o \in DetailOutcomes : BackfillDetail(i, o)
  \/ \E i \in CallIds, ok \in BOOLEAN : BackfillSave(i, ok)

FairSettle ==
  /\ WF_vars(\E i \in CallIds, ok \in BOOLEAN : BackfillSigs(i, ok))
  /\ WF_vars(\E i \in CallIds, o \in DetailOutcomes : BackfillDetail(i, o))
  /\ WF_vars(\E i \in CallIds, ok \in BOOLEAN : BackfillSave(i, ok))

SpecSettle ==
  /\ \E se \in BOOLEAN : InitWith(SettleChain, se)
  /\ [][NextSettle]_vars
  /\ FairSettle

\* The process ends and a new one creates the stream again: the closure is as after
\* construction (empty dedup cache, no pair, no socket, no timer), the persisted
\* cursor files and the ledger are what they were.  History: the events delivered
\* and the number of calls made are kept.
Restart ==
  /\ nCalls > 0
  /\ ws' = 0
  /\ sock' = [s \in SockIds |-> NoSock]
  /\ timers' = NoTimers
  /\ backoffMs' = BaseBackoffMs
  /\ pair' = 0
  /\ inflightDetails' = 0
  /\ seen' = <<>>
  /\ shouldRun' = FALSE
  /\ orphanProbes' = 0
  /\ probeRpcs' = 0
  /\ calls' = [i \in CallIds |-> NoCall]
  /\ lastCall' = NoCall
  /\ lives' = [t \in LiveIds |-> NoLive]
  /\ evicted' = {}
  /\ hist' = NoHist
  /\ UNCHANGED << files, emits, nCalls, envVars >>

\* SpecRestart: start() with a well-formed pair on a ledger that holds transactions
\* of that pair, the caller awaiting each call, the process restarting at any time;
\* sockets open and are acknowledged.
RestartPairs == {1}
RestartChain == {1, 2}
NextRestart ==
  \/ \E s \in SockIds :
       \/ SockOpen(s)
       \/ SockAck(s)
  \/ \E i \in CallIds, p \in RestartPairs :
       /\ Awaited
       /\ StartCall(i, p, "start")
  \/ \E i \in CallIds : StartProbeDone(i, "ok")
  \/ \E i \in CallIds, ok \in BOOLEAN : BackfillSigs(i, ok)
  \/ \E i \in CallIds, o \in DetailOutcomes : BackfillDetail(i, o)
  \/ Restart

SpecRestart == InitWith(RestartChain, FALSE) /\ [][NextRestart]_vars

\* SpecKeys: start(), setPair() and stop() with two well-formed pairs that agree on the first
\* six characters of wallet and of mint, on a ledger that holds transactions of the
\* first, the caller awaiting each call; sockets open and are acknowledged.
KeyPairs == {1, 2}
KeyChain == {1, 2}
NextKeys ==
  \/ \E s \in SockIds :
       \/ SockOpen(s)
       \/ SockAck(s)
  \/ \E i \in CallIds, p \in KeyPairs, k \in {"start", "setPair"} :
       /\ Awaited
       /\ StartCall(i, p, k)
  \/ \E i \in CallIds : StartProbeDone(i, "ok")
  \/ \E i \in CallIds, ok \in BOOLEAN : BackfillSigs(i, ok)
  \/ \E i \in CallIds, o \in DetailOutcomes : BackfillDetail(i, o)
  \/ Awaited /\ Stop

SpecKeys == InitWith(KeyChain, FALSE) /\ [][NextKeys]_vars

\* SpecQuiet: one start() with a well-formed pair on a ledger that holds transactions
\* of that pair, and stop() at any time, while the backfill runs and while detail
\* fetches of the live path are under way included; sockets open and are
\* acknowledged, notifications arrive.
QuietPairs == {1}
QuietChain == {1, 2}
NextQuiet ==
  \/ \E s \in SockIds :
       \/ SockOpen(s)
       \/ SockAck(s)
  \/ \E i \in CallIds, p \in QuietPairs :
       /\ nCalls = 0
       /\ StartCall(i, p, "start")
  \/ \E i \in CallIds : StartProbeDone(i, "ok")
  \/ \E i \in CallIds : BackfillSigs(i, TRUE)
  \/ \E i \in CallIds, o \in DetailOutcomes : BackfillDetail(i, o)
  \/ \E s \in SockIds, g \in Sigs : LiveBudget(2) /\ SockNotify(s, g, TRUE)
  \/ \E t \in LiveIds, o \in DetailOutcomes : LiveDetail(t, o)
  \/ Stop

SpecQuiet == InitWith(QuietChain, FALSE) /\ [][NextQuiet]_vars

\* SpecReject: start() and setPair() with a well-formed and with a malformed pair on
\* an empty ledger, the caller awaiting each call; preflights succeed or fail;
\* sockets open, are acknowledged and deliver their close, late ones included;
\* reconnect timers fire and reconnect probes are answered.
RejectPairs == {1, 4}
NextReject ==
  \/ \E s \in SockIds :
       \/ SockOpen(s)
       \/ SockAck(s)
       \/ SockClose(s)
  \/ ReconnectStep
  \/ \E i \in CallIds, p \in RejectPairs, k \in {"start", "setPair"} :
       /\ Awaited
       /\ StartCall(i, p, k)
  \/ \E i \in CallIds, o \in {"ok", "http"} : StartProbeDone(i, o)
  \/ \E i \in CallIds : BackfillSigs(i, TRUE)

SpecReject == InitWith({}, FALSE) /\ [][NextReject]_vars

\* C21: when getSignaturesForAddress fails the backfill pass ends there, nothing is
\* emitted, remembered or written, start() is not rejected: it resolves, having
\* called connect(), which creates the socket.
C21_LookupFailureNotRaised ==
  [][ \A i \in CallIds : BackfillSigs(i, FALSE) =>
        /\ calls'[i].pc = "new"
        /\ lastCall'.pc = "done"
        /\ lastCall'.aborted
        /\ shouldRun => NewSocket
        /\ UNCHANGED << seen, files, emits >> ]_vars

\* C21 witness: the history lookup of start() failed although the ledger holds a
\* transaction of the pair: start() has resolved, nothing was emitted and the socket
\* is connecting.
C21_Witness ==
  /\ nCalls = 1
  /\ lastCall.pc = "done"
  /\ lastCall.aborted
  /\ lastCall.lookups = 1
  /\ emits[1].bf = 0
  /\ 1 \in chain
  /\ ws # 0
  /\ sock[ws].st = "connecting"
\* C22: isConnected() is true only once the subscription acknowledgment of the current
\* socket has been received, and it is false after stop() has returned.
C22_ConnectedMeansSubscribed ==
  /\ isConnected => sock[ws].acked
  /\ ~shouldRun /\ Awaited => ~isConnected

\* C23: every start() call eventually settles, whatever the remote end leaves
\* unanswered: the preflight, the history lookup or a transaction-detail request.
C23_StartSettles ==
  \A i \in CallIds : (calls[i].pc \in InProgress) ~> (calls[i].pc = "new")

\* A start() or setPair() call settles; a reconnect probe is answered with a failure
CallSettles == \E i \in CallIds : calls[i].pc \in InProgress /\ calls'[i].pc = "new"
ProbeFailed == ProbeRpcDone(FALSE)
NextBackoff == Min(MaxBackoffMs, RoundTimes15(backoffMs))
Rescheduled ==
  /\ ~NewSocket
  /\ timers'.probe = "armed"
  /\ backoffMs' = NextBackoff
  /\ hist'.delay = NextBackoff

C25_IdleResetByEveryMessage == timers.idle = "armed" => ~hist.missed

ConnectionTimers == {"ping", "liveness", "idle"}
Reconnecting == shouldRun /\ ws # 0 /\ sock[ws].st = "closed" /\ ReconnectPending
Disconnected == ~shouldRun /\ Awaited

\* C26: while the socket has closed and a reconnect is pending, and while the stream
\* is stopped, no ping, liveness or idle timer is armed.
C26_TimersCancelledTogether ==
  (Reconnecting \/ Disconnected) => \A t \in ConnectionTimers : timers[t] # "armed"

\* C27: backfill emits no item whose slot is older than or equal to the cursor slot
\* loaded at start, and so never emits an event a second time, a process restart
\* between the two passes included.
C27_BackfillStopsAtCursor ==
  [][ \A i \in CallIds : BackfillEmits(i) =>
        /\ TxTab[calls[i].cur].slot > calls[i].since
        /\ emits'[calls[i].cur].bf = 1 ]_vars

\* C28: when the getTransaction of a backfill candidate fails, that candidate is
\* neither emitted nor remembered and nothing is written; the loop goes on with the
\* next candidate not yet seen, and when none is left the pass ends normally.
C28_DetailFailureSkipsOne ==
  [][ \A i \in CallIds : BackfillDetail(i, "fail") =>
        /\ DataUnchanged
        /\ calls[i].cur \notin Held(seen')
        /\ LET rest == SkipSeen(calls[i].todo, seen) IN
           IF rest = <<>>
           THEN calls'[i].pc = "new" /\ lastCall'.pc = "done" /\ ~lastCall'.aborted
           ELSE /\ calls'[i].pc = "detail"
                /\ calls'[i].cur = Head(rest)
                /\ calls'[i].todo = Tail(rest) ]_vars

\* C28 witness: the newest candidate was skipped, the older one was then emitted.
C28_Witness ==
  /\ nCalls = 1
  /\ lastCall.pc = "done"
  /\ ~lastCall.aborted
  /\ emits[2].bf = 0
  /\ 2 \notin Held(seen)
  /\ emits[1].bf = 1
  /\ files[stateFile(1)] = [lastSlot |-> 10, lastSig |-> 1]

\* Where signature g stands in the insertion order of the dedup Set s
Pos(s, g) == CHOOSE k \in 1..Len(s) : s[k].sig = g

\* C29: the dedup Set never holds more than 5000 signatures; an insertion deletes
\* something only when the Set is full, and what it deletes was inserted before
\* every signature that stays.
C29_CacheBoundedFifo ==
  [][ /\ Size(seen') <= SeenCap
      /\ Dropped(seen, seen') # {} => Size(seen') = SeenCap
      /\ \A g \in Dropped(seen, seen'), h \in Held(seen) \cap Held(seen') :
            Pos(seen, g) < Pos(seen, h) ]_vars

\* C29 witness: the Set is full, the oldest signature has gone, a later one stays.
C29_Witness ==
  /\ Size(seen) = SeenCap
  /\ 2 \in evicted
  /\ 2 \notin Held(seen)
  /\ 1 \in Held(seen)
  /\ emits[2].bf = 1
  /\ emits[1].bf = 1

\* C30: after every emission, backfill or live, the cursor file of the pair the event
\* carries holds the signature just emitted as lastSig; the call of start() or
\* setPair() and stop() leave every cursor file as it was.
C30_CursorFollowsEmission ==
  [][ /\ \A i \in CallIds : BackfillEmits(i) =>
             files'[stateFile(calls[i].p)].lastSig = calls[i].cur
      /\ \A t \in LiveIds : LiveEmits(t) =>
             files'[stateFile(EventPair(t))].lastSig = lives[t].sig
      /\ (CallMade \/ Stop) => UNCHANGED files ]_vars

\* The slots of the events emitted so far for pair p
EmittedSlots(p) ==
  {TxTab[g].slot : g \in {h \in Sigs : BothChecks(h, p) /\ emits[h].bf + emits[h].live > 0}}

\* C31: two distinct pairs never share a cursor file, so the cursor start() loads for
\* a pair is 0 or the slot of an event emitted for that same pair, pairs that agree
\* on their first six characters included.
C31_OneCursorPerPair ==
  [][ \A i \in CallIds : (calls[i].pc = "probe" /\ calls'[i].pc = "sigs") =>
        calls'[i].since \in {0} \cup EmittedSlots(calls[i].p) ]_vars

\* The caller invokes setPair()
SetPairCalled == \E i \in CallIds, p \in PairIds : StartCall(i, p, "setPair")

\* C32: stop(), and the stop() at the head of setPair(), leave the dedup Set empty
\* and the in-flight counter at zero, and leave the cursor files as they were.
C32_MemoryDiscardedOnStop ==
  [][ (Stop \/ SetPairCalled) =>
        /\ seen' = <<>>
        /\ inflightDetails' = 0
        /\ UNCHANGED files ]_vars

\* The sockets that are connecting or open
Alive == {s \in SockIds : sock[s].st \in {"connecting", "open"}}

\* C33: at most one socket is connecting or open at any time.
C33_OneSocketAlive == Cardinality(Alive) <= 1

\* The reconnect attempts under way: probe timers armed and probe requests in flight
PendingReconnects ==
  (IF timers.probe = "armed" THEN 1 ELSE 0) + orphanProbes + probeRpcs

\* C34: at most one reconnect attempt (an armed probe timer or a probe request in
\* flight) is pending at any time.
C34_OneReconnectPending == PendingReconnects <= 1

\* C35: inflightDetails is never negative and equals the number of detail fetches
\* of the live path that were admitted and have not completed yet.
C35_CounterMatchesFetches ==
  /\ inflightDetails >= 0
  /\ inflightDetails = Cardinality(Fetching)

\* C36: once stop() has returned, and as long as the caller invokes neither start()
\* nor setPair(), no event is emitted and no cursor file is written, whatever detail
\* fetch or backfill pass was under way when stop() was called.
C36_NoEventAfterStop ==
  [][ (hist.halted /\ hist'.halted) => UNCHANGED << emits, files >> ]_vars

\* Candidate of backfill call i passes txHasWalletMintPair in this step
BackfillVerified(i) ==
  /\ calls[i].pc = "detail"
  /\ \/ calls'[i].pc = "save"
     \/ BackfillEmits(i)

\* C37: the pair an event carries is the pair its transaction was verified against,
\* and the cursor file written for it is the file of that pair, also when the
\* closure's pair changes while the detail fetch or saveEvent is pending.
C37_EventPairIsVerifiedPair ==
  [][ /\ \A i \in CallIds : BackfillVerified(i) => calls[i].p = pair
      /\ \A t \in LiveIds : LiveEmits(t) =>
            /\ txHasWalletMintPair(lives[t].sig, EventPair(t), "ok")
            /\ \A k \in FileKeys : k # stateFile(EventPair(t)) => files'[k] = files[k] ]_vars

\* C38: the lastSig of a cursor file is the signature of an event that was emitted
\* and whose slot is the file's lastSlot.
C38_CursorConsistent ==
  \A k \in FileKeys :
    files[k].lastSig \in Sigs =>
      /\ emits[files[k].lastSig].bf + emits[files[k].lastSig].live > 0
      /\ TxTab[files[k].lastSig].slot = files[k].lastSlot

\* The last call to settle was a setPair() that rejected, and no call is under way
SetPairRejected == lastCall.kind = "setPair" /\ lastCall.pc = "rejected" /\ Awaited

\* C39: once a setPair() has rejected, on its validation or on its probe, and until
\* the caller makes another call, shouldRun is false, no socket is held and no timer
\* is armed, whatever events of the old stream arrive afterwards.
C39_RejectedSetPairStops ==
  SetPairRejected =>
    /\ ~shouldRun
    /\ ws = 0
    /\ \A t \in DOMAIN timers : timers[t] # "armed"
    /\ orphanProbes = 0

====
